---- MODULE Spec2Model ----
(***************************************************************************)
(* Forge-Reporter: the sync orchestrator (useSync hook) and the collection *)
(* synchronizers it fans out to.                                           *)
(*                                                                         *)
(* One action per continuation segment of the async functions: the code    *)
(* between two awaits runs without interleaving on the event loop, and     *)
(* every await on the network is a point where other handlers may run.     *)
(***************************************************************************)
EXTENDS Integers, Sequences, FiniteSets, TLC

(***************************************************************************)
(* Bounds of the model                                                     *)
(***************************************************************************)
MaxLists == 2
MaxClock == 2
MaxRows == 2
MaxKey == 2
MaxText == 2
MaxEdits == 1

(***************************************************************************)
(* Values                                                                  *)
(***************************************************************************)
\* JavaScript null for object-typed values (SSPData | null, error, results)
Null == [null |-> TRUE]
\* sspId: string | null
NoId == "<null>"
\* lastSyncedAt: Date | null -- dates are clock readings >= 1, null is 0
NoDate == 0
\* sspTitle: string | null
NoTitle == "<null>"

SspIds == {"ssp-test-001"}
Titles == {"Test SSP"}
UntitledSSP == "Untitled SSP"

\* The labels fullSync gives its collection syncs, in the order it pushes them
Labels ==
  <<"infoTypes", "portsProtocols", "cryptoModules", "separationDuties",
    "policyMappings", "scrmEntries", "cmBaselines">>

LabelSet == {Labels[i] : i \in 1..Len(Labels)}

\* The collections of a record that are non-empty: the first n labels, for
\* n up to MaxLists
ListChoices == {{Labels[i] : i \in 1..n} : n \in 0..MaxLists}

\* SSPData: lists are the collections that hold at least one row
DataSet == [lists : ListChoices]

\* Error objects the network layer rejects with
ErrorMessages == {"Network error - unable to reach server",
                  "Request failed with status 500"}
Rejections == [isError : {TRUE}, message : ErrorMessages]

\* e instanceof Error ? e.message : fallback
ErrorMessage(e, fallback) ==
  IF e.isError THEN e.message ELSE fallback

Err(parts) == [message |-> parts]
Bool(b) == [bool |-> b]

VARIABLES
  state,              \* SyncState held by useState
  previousDataRef,    \* baseline for change detection
  syncInProgressRef,  \* the mutex
  isOnlineMode,       \* the hook's argument
  op,                 \* the admitted call that is in flight
  tasks,              \* settlement of the collection syncs fullSync issued
  ret,                \* when the last step was a return: the call, what it
                      \* resolved to and the return statement it left by
  clock,              \* the wall clock new Date() reads
  writes,             \* the section writes the last admitted save issued
  sync,               \* the collection synchronizer invocation
  remote,             \* the remote collection of the document
  requests,           \* the requests the invocation has issued, in order
  responses,          \* how each request that has settled ended, in order
  validation,         \* the record last validated and its ValidationResult
  history,            \* when recording: the baseline the call in flight was
                      \* admitted with, and whether markDirty ran since
  client              \* the API client and useAuth: the two storages, the
                      \* guard of the refresh, the refresh requests issued,
                      \* the connect call in flight, AuthState, and what
                      \* the last step returned when it was a return

orchVars == <<state, previousDataRef, syncInProgressRef, isOnlineMode, op,
              tasks, ret, clock, writes, history>>
syncVars == <<sync, remote, requests, responses>>
\* what the orchestrator never touches
otherVars == <<syncVars, validation, client>>
\* what a step of the orchestrator leaves alone, unless it admits a call or
\* is markDirty
restVars == <<otherVars, history>>
vars == <<orchVars, syncVars, validation, client>>

NoSync ==
  [pc |-> "idle", input |-> <<>>, rows |-> <<>>, i |-> 0, error |-> Null]
NoRet == [fn |-> "none", value |-> Null, exit |-> "none"]
NoOp == [fn |-> "none", pc |-> "none", sspId |-> NoId, data |-> Null]
NoTasks == [l \in LabelSet |-> "none"]
NoValidation == [data |-> Null, result |-> Null]
NoHistory == [on |-> FALSE, baseline |-> Null, dirtied |-> FALSE]
Recording == [on |-> TRUE, baseline |-> Null, dirtied |-> FALSE]

\* a call is admitted: previousDataRef.current at that time is noted
Admitted(h, baseline) ==
  IF h.on THEN [h EXCEPT !.baseline = baseline, !.dirtied = FALSE] ELSE h

\* markDirty ran: noted when a call is in flight
Dirtied(h, inFlight) ==
  IF h.on /\ inFlight THEN [h EXCEPT !.dirtied = TRUE] ELSE h

\* getItem of a key that is not stored
NoToken == Null
NoUrl == "<null>"
NoStorage ==
  [token |-> NoToken, refreshToken |-> NoToken, sessionToken |-> NoToken,
   apiUrl |-> NoUrl]

NoAuthRet == [fn |-> "none", value |-> Null, exit |-> "none"]
NoConnect == [pc |-> "none", token |-> NoToken, apiUrl |-> NoUrl]

\* AuthState: what useAuth holds of it
Unauthenticated ==
  [isAuthenticated |-> FALSE, isOnlineMode |-> FALSE, isLoading |-> FALSE,
   sspId |-> NoId, apiUrl |-> NoUrl, error |-> Null]

\* What the API client and useAuth hold after construction
NoClient ==
  [storage |-> NoStorage, refreshPromise |-> 0, refreshes |-> <<>>,
   connecting |-> NoConnect, authState |-> Unauthenticated,
   authRet |-> NoAuthRet]

\* localStorage and sessionStorage of the API client
storage == client.storage
\* the API client's guard: the pending refresh, or 0
refreshPromise == client.refreshPromise
\* the refresh requests issued, in order
refreshes == client.refreshes
\* the connect call in flight
connecting == client.connecting
\* AuthState held by useAuth
authState == client.authState
\* when the last step was a return of the API client or of connect: the
\* call and what it returned
authRet == client.authRet

InitialState(online) ==
  [status |-> IF online THEN "idle" ELSE "offline",
   lastSyncedAt |-> NoDate,
   sspId |-> NoId,
   sspTitle |-> NoTitle,
   error |-> Null,
   pendingChanges |-> FALSE]

Init ==
  /\ isOnlineMode \in BOOLEAN
  /\ state = InitialState(isOnlineMode)
  /\ previousDataRef = Null
  /\ syncInProgressRef = FALSE
  /\ op = NoOp
  /\ tasks = NoTasks
  /\ ret = NoRet
  /\ clock = 1
  /\ writes = {}
  /\ sync = NoSync
  /\ remote = {}
  /\ requests = <<>>
  /\ responses = <<>>
  /\ validation = NoValidation
  /\ history = NoHistory
  /\ client = NoClient

\* The wall clock advances
Tick ==
  /\ clock < MaxClock
  /\ clock' = clock + 1
  /\ ret' = NoRet
  /\ UNCHANGED <<restVars, writes, state, previousDataRef, syncInProgressRef,
                 isOnlineMode, op, tasks>>

(***************************************************************************)
(* useEffect on isOnlineMode                                               *)
(***************************************************************************)
\* coming online sets idle whatever the status was
OnlineEffect_Unguarded(online, prev) ==
  IF ~online
    THEN (IF prev.status # "offline" THEN [prev EXCEPT !.status = "offline"]
                                     ELSE prev)
    ELSE [prev EXCEPT !.status = "idle"]

OnlineEffect(online, prev) ==
  IF ~online
    THEN (IF prev.status # "offline" THEN [prev EXCEPT !.status = "offline"]
                                     ELSE prev)
    ELSE (IF prev.status = "offline" THEN [prev EXCEPT !.status = "idle"]
                                     ELSE prev)

SetOnlineMode(online) ==
  /\ online # isOnlineMode
  /\ isOnlineMode' = online
  /\ state' = OnlineEffect(online, state)
  /\ ret' = NoRet
  /\ UNCHANGED <<restVars, writes, previousDataRef, syncInProgressRef, op,
                 tasks, clock>>

(***************************************************************************)
(* loadFromServer                                                          *)
(***************************************************************************)
Syncing(prev) ==
  [prev EXCEPT !.status = "syncing", !.error = Null]

\* a failure that also stamps lastSyncedAt
Failed_Stamped(prev, msg) ==
  [prev EXCEPT !.status = "error", !.error = Err(<<msg>>),
               !.lastSyncedAt = clock]

Failed(prev, msg) ==
  [prev EXCEPT !.status = "error", !.error = Err(<<msg>>)]

\* loadFromServer without the test of the mutex on entry
loadFromServer_NoMutex(sspId) ==
  /\ syncInProgressRef' = TRUE
  /\ state' = Syncing(state)
  /\ op' = [fn |-> "loadFromServer", pc |-> "data", sspId |-> sspId,
            data |-> Null]
  /\ history' = Admitted(history, previousDataRef)
  /\ ret' = NoRet
  /\ UNCHANGED <<otherVars, writes, previousDataRef, isOnlineMode,
                 tasks, clock>>

loadFromServer(sspId) ==
  IF syncInProgressRef
    THEN /\ ret' = [fn |-> "loadFromServer", value |-> Null, exit |-> "skip"]
         /\ UNCHANGED <<restVars, writes, state, previousDataRef,
                        syncInProgressRef, isOnlineMode, op, tasks, clock>>
    ELSE /\ syncInProgressRef' = TRUE
         /\ state' = Syncing(state)
         /\ op' = [fn |-> "loadFromServer", pc |-> "data", sspId |-> sspId,
                   data |-> Null]
         /\ history' = Admitted(history, previousDataRef)
         /\ ret' = NoRet
         /\ UNCHANGED <<otherVars, writes, previousDataRef,
                        isOnlineMode, tasks, clock>>

\* loadSSPFromBackend resolved: the baseline is stored, the title is fetched
LoadDataResolved(data) ==
  /\ op.fn = "loadFromServer" /\ op.pc = "data"
  /\ previousDataRef' = data
  /\ op' = [op EXCEPT !.pc = "title", !.data = data]
  /\ ret' = NoRet
  /\ UNCHANGED <<restVars, writes, state, syncInProgressRef, isOnlineMode,
                 tasks, clock>>

\* the title request resolved: title is res.document?.title || 'Untitled SSP'
LoadTitleResolved(title) ==
  /\ op.fn = "loadFromServer" /\ op.pc = "title"
  /\ state' = [status |-> "synced",
               lastSyncedAt |-> clock,
               sspId |-> op.sspId,
               sspTitle |-> IF title = NoTitle THEN UntitledSSP ELSE title,
               error |-> Null,
               pendingChanges |-> FALSE]
  /\ ret' = [fn |-> "loadFromServer", value |-> op.data, exit |-> "try"]
  /\ syncInProgressRef' = FALSE
  /\ op' = NoOp
  /\ UNCHANGED <<restVars, writes, previousDataRef, isOnlineMode, tasks,
                 clock>>

\* a catch block that is not followed by the release of the mutex
LoadRejected_NoFinally(e) ==
  /\ op.fn = "loadFromServer" /\ op.pc \in {"data", "title"}
  /\ state' = Failed(state, ErrorMessage(e, "Failed to load SSP"))
  /\ ret' = [fn |-> "loadFromServer", value |-> Null, exit |-> "catch"]
  /\ op' = NoOp
  /\ UNCHANGED <<restVars, writes, previousDataRef, syncInProgressRef,
                 isOnlineMode, tasks, clock>>

\* either await of loadFromServer rejected: catch, then finally
LoadRejected(e) ==
  /\ op.fn = "loadFromServer" /\ op.pc \in {"data", "title"}
  /\ state' = Failed(state, ErrorMessage(e, "Failed to load SSP"))
  /\ ret' = [fn |-> "loadFromServer", value |-> Null, exit |-> "catch"]
  /\ syncInProgressRef' = FALSE
  /\ op' = NoOp
  /\ UNCHANGED <<restVars, writes, previousDataRef, isOnlineMode, tasks,
                 clock>>

(***************************************************************************)
(* Change detection of the primary save                                    *)
(***************************************************************************)
\* The sections a record is saved by, and what a section holds: Blank when
\* it is not populated, else one of MaxText texts
SectionKeys == {"system_info", "fips_199"}
Blank == 0
NoSections == [k \in SectionKeys |-> Blank]
SectionsOf(data) ==
  IF "sections" \in DOMAIN data THEN data.sections ELSE NoSections

\* Records that differ in their sections
SaveData == [lists : {{}}, sections : [SectionKeys -> 0..MaxText]]

\* the sections to push: with no previous record every populated section,
\* else the sections whose value differs from the previous record's
ChangedSections(previous, current) ==
  IF previous = Null
    THEN {k \in SectionKeys : SectionsOf(current)[k] # Blank}
    ELSE {k \in SectionKeys :
            SectionsOf(previous)[k] # SectionsOf(current)[k]}

\* saveSSPToBackend(sspId, data, previous): one write per changed section
saveSSPToBackend(data, previous) ==
  ChangedSections(previous, data)

(***************************************************************************)
(* saveToServer                                                            *)
(***************************************************************************)
Synced(prev, now) ==
  [prev EXCEPT !.status = "synced", !.lastSyncedAt = now,
               !.pendingChanges = FALSE, !.error = Null]

\* the save is not given the baseline: every save is a first save
saveToServer_NoBaseline(sspId, data) ==
  IF syncInProgressRef
    THEN /\ ret' = [fn |-> "saveToServer",
                    value |-> Bool(FALSE), exit |-> "skip"]
         /\ UNCHANGED <<restVars, writes, state, previousDataRef,
                        syncInProgressRef, isOnlineMode, op, tasks, clock>>
    ELSE /\ syncInProgressRef' = TRUE
         /\ state' = Syncing(state)
         /\ op' = [fn |-> "saveToServer", pc |-> "save", sspId |-> sspId,
                   data |-> data]
         /\ writes' = saveSSPToBackend(data, Null)
         /\ history' = Admitted(history, previousDataRef)
         /\ ret' = NoRet
         /\ UNCHANGED <<otherVars, previousDataRef, isOnlineMode,
                        tasks, clock>>

saveToServer(sspId, data) ==
  IF syncInProgressRef
    THEN /\ ret' = [fn |-> "saveToServer",
                    value |-> Bool(FALSE), exit |-> "skip"]
         /\ UNCHANGED <<restVars, writes, state, previousDataRef,
                        syncInProgressRef, isOnlineMode, op, tasks, clock>>
    ELSE /\ syncInProgressRef' = TRUE
         /\ state' = Syncing(state)
         /\ op' = [fn |-> "saveToServer", pc |-> "save", sspId |-> sspId,
                   data |-> data]
         /\ writes' = saveSSPToBackend(data, previousDataRef)
         /\ history' = Admitted(history, previousDataRef)
         /\ ret' = NoRet
         /\ UNCHANGED <<otherVars, previousDataRef, isOnlineMode,
                        tasks, clock>>

SaveResolved ==
  /\ op.fn = "saveToServer" /\ op.pc = "save"
  /\ previousDataRef' = op.data
  /\ state' = Synced(state, clock)
  /\ ret' = [fn |-> "saveToServer", value |-> Bool(TRUE), exit |-> "try"]
  /\ syncInProgressRef' = FALSE
  /\ op' = NoOp
  /\ UNCHANGED <<restVars, writes, isOnlineMode, tasks, clock>>

\* a catch block that also resets the pending flag, as the success path does
SaveRejected_ClearsPending(e) ==
  /\ op.fn = "saveToServer" /\ op.pc = "save"
  /\ state' = [Failed(state, ErrorMessage(e, "Failed to save SSP"))
                 EXCEPT !.pendingChanges = FALSE]
  /\ ret' = [fn |-> "saveToServer", value |-> Bool(FALSE), exit |-> "catch"]
  /\ syncInProgressRef' = FALSE
  /\ op' = NoOp
  /\ UNCHANGED <<restVars, writes, previousDataRef, isOnlineMode, tasks,
                 clock>>

SaveRejected(e) ==
  /\ op.fn = "saveToServer" /\ op.pc = "save"
  /\ state' = Failed(state, ErrorMessage(e, "Failed to save SSP"))
  /\ ret' = [fn |-> "saveToServer", value |-> Bool(FALSE), exit |-> "catch"]
  /\ syncInProgressRef' = FALSE
  /\ op' = NoOp
  /\ UNCHANGED <<restVars, writes, previousDataRef, isOnlineMode, tasks,
                 clock>>

(***************************************************************************)
(* fullSync                                                                *)
(***************************************************************************)
\* every collection is synchronized, empty or not
HasRows_Always(data, label) ==
  label \in LabelSet

\* data.<collection>?.length
HasRows(data, label) ==
  label \in data.lists

\* syncPromises: the labels pushed, in the order of the seven if statements
SyncPromises(data) ==
  SelectSeq(Labels, LAMBDA l : HasRows(data, l))

\* failures.join(', ')
RECURSIVE Join(_)
Join(labels) ==
  IF Len(labels) = 0 THEN <<>>
  ELSE IF Len(labels) = 1 THEN labels
  ELSE <<Head(labels), ", ">> \o Join(Tail(labels))

\* only the first rejection is reported
Failures_FirstOnly(promises, settled) ==
  LET all == SelectSeq(promises, LAMBDA l : settled[l] = "rejected")
  IN  IF Len(all) = 0 THEN all ELSE <<Head(all)>>

\* results.map(r => rejected ? label : null).filter(Boolean)
Failures(promises, settled) ==
  SelectSeq(promises, LAMBDA l : settled[l] = "rejected")

PartialFailure(prev, now, failures) ==
  [prev EXCEPT !.status = "error", !.lastSyncedAt = now,
               !.pendingChanges = TRUE,
               !.error = Err(<<"Sync partially failed for: ">> \o Join(failures))]

\* Promise.all in place of Promise.allSettled: settles at the first rejection
AllSettled_FirstRejection(promises, settled) ==
  \/ \A i \in 1..Len(promises) : settled[promises[i]] = "fulfilled"
  \/ \E i \in 1..Len(promises) : settled[promises[i]] = "rejected"

\* Promise.allSettled: resolves once no promise is pending
AllSettled(promises, settled) ==
  \A i \in 1..Len(promises) : settled[promises[i]] \in {"fulfilled", "rejected"}

\* fullSync that issues the collection syncs together with the primary save
fullSync_Eager(sspId, data) ==
  IF syncInProgressRef
    THEN /\ ret' = [fn |-> "fullSync", value |-> Bool(FALSE), exit |-> "skip"]
         /\ UNCHANGED <<restVars, writes, state, previousDataRef,
                        syncInProgressRef, isOnlineMode, op, tasks, clock>>
    ELSE /\ syncInProgressRef' = TRUE
         /\ state' = Syncing(state)
         /\ op' = [fn |-> "fullSync", pc |-> "primary", sspId |-> sspId,
                   data |-> data]
         /\ tasks' = [l \in LabelSet |->
                        IF HasRows(data, l) THEN "pending" ELSE "none"]
         /\ writes' = saveSSPToBackend(data, previousDataRef)
         /\ history' = Admitted(history, previousDataRef)
         /\ ret' = NoRet
         /\ UNCHANGED <<otherVars, previousDataRef, isOnlineMode,
                        clock>>

fullSync(sspId, data) ==
  IF syncInProgressRef
    THEN /\ ret' = [fn |-> "fullSync", value |-> Bool(FALSE), exit |-> "skip"]
         /\ UNCHANGED <<restVars, writes, state, previousDataRef,
                        syncInProgressRef, isOnlineMode, op, tasks, clock>>
    ELSE /\ syncInProgressRef' = TRUE
         /\ state' = Syncing(state)
         /\ op' = [fn |-> "fullSync", pc |-> "primary", sspId |-> sspId,
                   data |-> data]
         /\ writes' = saveSSPToBackend(data, previousDataRef)
         /\ history' = Admitted(history, previousDataRef)
         /\ ret' = NoRet
         /\ UNCHANGED <<otherVars, previousDataRef, isOnlineMode,
                        tasks, clock>>

\* saveSSPToBackend resolved: the collection syncs are issued and awaited
FullPrimaryResolved ==
  /\ op.fn = "fullSync" /\ op.pc = "primary"
  /\ tasks' = [l \in LabelSet |->
                 IF \E i \in 1..Len(SyncPromises(op.data)) :
                      SyncPromises(op.data)[i] = l
                   THEN "pending" ELSE "none"]
  /\ op' = [op EXCEPT !.pc = "fanout"]
  /\ ret' = NoRet
  /\ UNCHANGED <<restVars, writes, state, previousDataRef, syncInProgressRef,
                 isOnlineMode, clock>>

\* saveSSPToBackend rejected: catch, then finally
FullPrimaryRejected(e) ==
  /\ op.fn = "fullSync" /\ op.pc = "primary"
  /\ state' = Failed(state, ErrorMessage(e, "Sync failed"))
  /\ ret' = [fn |-> "fullSync", value |-> Bool(FALSE), exit |-> "catch"]
  /\ syncInProgressRef' = FALSE
  /\ op' = NoOp
  /\ UNCHANGED <<restVars, writes, previousDataRef, isOnlineMode, tasks,
                 clock>>

\* one collection sync settles
TaskSettled(label, outcome) ==
  /\ tasks[label] = "pending"
  /\ tasks' = [tasks EXCEPT ![label] = outcome]
  /\ ret' = NoRet
  /\ UNCHANGED <<restVars, writes, state, previousDataRef, syncInProgressRef,
                 isOnlineMode, op, clock>>

\* the continuation without the assignment to previousDataRef
FullSyncSettled_KeepBaseline ==
  /\ op.fn = "fullSync" /\ op.pc = "fanout"
  /\ AllSettled(SyncPromises(op.data), tasks)
  /\ LET failures == Failures(SyncPromises(op.data), tasks)
     IN  IF Len(failures) > 0
           THEN /\ state' = PartialFailure(state, clock, failures)
                /\ ret' = [fn |-> "fullSync",
                           value |-> Bool(FALSE), exit |-> "partial"]
           ELSE /\ state' = Synced(state, clock)
                /\ ret' = [fn |-> "fullSync",
                           value |-> Bool(TRUE), exit |-> "try"]
  /\ tasks' = NoTasks
  /\ syncInProgressRef' = FALSE
  /\ op' = NoOp
  /\ UNCHANGED <<restVars, writes, previousDataRef, isOnlineMode, clock>>

\* the continuation of await Promise.allSettled(...)
FullSyncSettled ==
  /\ op.fn = "fullSync" /\ op.pc = "fanout"
  /\ AllSettled(SyncPromises(op.data), tasks)
  /\ LET failures == Failures(SyncPromises(op.data), tasks)
     IN  /\ previousDataRef' = op.data
         /\ IF Len(failures) > 0
              THEN /\ state' = PartialFailure(state, clock, failures)
                   /\ ret' = [fn |-> "fullSync",
                              value |-> Bool(FALSE), exit |-> "partial"]
              ELSE /\ state' = Synced(state, clock)
                   /\ ret' = [fn |-> "fullSync",
                              value |-> Bool(TRUE), exit |-> "try"]
  /\ tasks' = NoTasks
  /\ syncInProgressRef' = FALSE
  /\ op' = NoOp
  /\ UNCHANGED <<restVars, writes, isOnlineMode, clock>>

(***************************************************************************)
(* Synchronous state transitions                                           *)
(***************************************************************************)
\* title is optional: title || null
setCurrentSSP(sspId, title) ==
  /\ state' = [state EXCEPT !.sspId = sspId, !.sspTitle = title,
                            !.pendingChanges = FALSE]
  /\ ret' = NoRet
  /\ UNCHANGED <<restVars, writes, previousDataRef, syncInProgressRef,
                 isOnlineMode, op, tasks, clock>>

\* every status becomes dirty
markDirty_Always ==
  /\ state' = [state EXCEPT !.status = "dirty", !.pendingChanges = TRUE]
  /\ history' = Dirtied(history, syncInProgressRef)
  /\ ret' = NoRet
  /\ UNCHANGED <<otherVars, writes, previousDataRef,
                 syncInProgressRef, isOnlineMode, op, tasks, clock>>

markDirty ==
  /\ state' = [state EXCEPT
                 !.status = IF state.status = "synced" THEN "dirty"
                                                       ELSE state.status,
                 !.pendingChanges = TRUE]
  /\ history' = Dirtied(history, syncInProgressRef)
  /\ ret' = NoRet
  /\ UNCHANGED <<otherVars, writes, previousDataRef,
                 syncInProgressRef, isOnlineMode, op, tasks, clock>>

\* the state is reset and the baseline is kept
clearSync_KeepBaseline ==
  /\ state' = [status |-> "offline", lastSyncedAt |-> NoDate, sspId |-> NoId,
               sspTitle |-> NoTitle, error |-> Null, pendingChanges |-> FALSE]
  /\ ret' = NoRet
  /\ UNCHANGED <<restVars, writes, previousDataRef, syncInProgressRef,
                 isOnlineMode, op, tasks, clock>>

clearSync ==
  /\ previousDataRef' = Null
  /\ state' = [status |-> "offline", lastSyncedAt |-> NoDate, sspId |-> NoId,
               sspTitle |-> NoTitle, error |-> Null, pendingChanges |-> FALSE]
  /\ ret' = NoRet
  /\ UNCHANGED <<restVars, writes, syncInProgressRef, isOnlineMode, op, tasks,
                 clock>>

\* the pending flag is not consulted
clearError_AlwaysIdle ==
  /\ state' = [state EXCEPT !.status = "idle", !.error = Null]
  /\ ret' = NoRet
  /\ UNCHANGED <<restVars, writes, previousDataRef, syncInProgressRef,
                 isOnlineMode, op, tasks, clock>>

clearError ==
  /\ state' = [state EXCEPT
                 !.status = IF state.pendingChanges THEN "dirty" ELSE "idle",
                 !.error = Null]
  /\ ret' = NoRet
  /\ UNCHANGED <<restVars, writes, previousDataRef, syncInProgressRef,
                 isOnlineMode, op, tasks, clock>>

(***************************************************************************)
(* The orchestrator                                                        *)
(***************************************************************************)
Next ==
  \/ Tick
  \/ \E online \in BOOLEAN : SetOnlineMode(online)
  \/ \E id \in SspIds : loadFromServer(id)
  \/ \E d \in DataSet : LoadDataResolved(d)
  \/ \E t \in Titles \cup {NoTitle} : LoadTitleResolved(t)
  \/ \E e \in Rejections : LoadRejected(e)
  \/ \E id \in SspIds, d \in DataSet : saveToServer(id, d)
  \/ SaveResolved
  \/ \E e \in Rejections : SaveRejected(e)
  \/ \E id \in SspIds, d \in DataSet : fullSync(id, d)
  \/ FullPrimaryResolved
  \/ \E e \in Rejections : FullPrimaryRejected(e)
  \/ \E l \in LabelSet, r \in {"fulfilled", "rejected"} : TaskSettled(l, r)
  \/ FullSyncSettled
  \/ \E id \in SspIds, t \in Titles \cup {NoTitle} : setCurrentSSP(id, t)
  \/ markDirty
  \/ clearSync
  \/ clearError

Spec == Init /\ [][Next]_vars

\* Every network request settles
NetworkSettles ==
  \/ \E d \in DataSet : LoadDataResolved(d)
  \/ \E t \in Titles \cup {NoTitle} : LoadTitleResolved(t)
  \/ \E e \in Rejections : LoadRejected(e)
  \/ SaveResolved
  \/ \E e \in Rejections : SaveRejected(e)
  \/ FullPrimaryResolved
  \/ \E e \in Rejections : FullPrimaryRejected(e)
  \/ \E l \in LabelSet, r \in {"fulfilled", "rejected"} : TaskSettled(l, r)
  \/ FullSyncSettled

FairSpec == Init /\ [][Next]_vars /\ WF_vars(NetworkSettles)

\* The orchestrator over records that differ in their sections
SaveNext ==
  \/ \E id \in SspIds : loadFromServer(id)
  \/ \E d \in SaveData : LoadDataResolved(d)
  \/ \E t \in Titles \cup {NoTitle} : LoadTitleResolved(t)
  \/ \E e \in Rejections : LoadRejected(e)
  \/ \E id \in SspIds, d \in SaveData : saveToServer(id, d)
  \/ SaveResolved
  \/ \E e \in Rejections : SaveRejected(e)
  \/ \E id \in SspIds, d \in SaveData : fullSync(id, d)
  \/ FullPrimaryResolved
  \/ \E e \in Rejections : FullPrimaryRejected(e)
  \/ FullSyncSettled
  \/ clearSync

SaveSpec == Init /\ [][SaveNext]_vars

\* The orchestrator with edits arriving while a call is in flight, and what
\* each call was admitted with on record
HistoryInit ==
  /\ isOnlineMode \in BOOLEAN
  /\ state = InitialState(isOnlineMode)
  /\ previousDataRef = Null
  /\ syncInProgressRef = FALSE
  /\ op = NoOp
  /\ tasks = NoTasks
  /\ ret = NoRet
  /\ clock = 1
  /\ writes = {}
  /\ sync = NoSync
  /\ remote = {}
  /\ requests = <<>>
  /\ responses = <<>>
  /\ validation = NoValidation
  /\ history = Recording
  /\ client = NoClient

HistoryNext ==
  \/ \E id \in SspIds : loadFromServer(id)
  \/ \E d \in SaveData : LoadDataResolved(d)
  \/ \E t \in Titles \cup {NoTitle} : LoadTitleResolved(t)
  \/ \E e \in Rejections : LoadRejected(e)
  \/ \E id \in SspIds, d \in SaveData : saveToServer(id, d)
  \/ SaveResolved
  \/ \E e \in Rejections : SaveRejected(e)
  \/ \E id \in SspIds, d \in SaveData : fullSync(id, d)
  \/ FullPrimaryResolved
  \/ \E e \in Rejections : FullPrimaryRejected(e)
  \/ FullSyncSettled
  \/ markDirty

HistorySpec == HistoryInit /\ [][HistoryNext]_vars

TypeOK ==
  /\ state.status \in {"offline", "idle", "syncing", "synced", "dirty", "error"}
  /\ state.lastSyncedAt \in 0..MaxClock
  /\ state.sspId \in {NoId} \cup SspIds
  /\ state.pendingChanges \in BOOLEAN
  /\ previousDataRef \in DataSet \cup {Null}
  /\ syncInProgressRef \in BOOLEAN
  /\ op.fn \in {"none", "loadFromServer", "saveToServer", "fullSync"}

(***************************************************************************)
(* Collection synchronizer: delete-all, then one create per valid row      *)
(***************************************************************************)
\* A row's designated identifier; blank when it was left empty
BlankKey == 0
RowSet == [key : 0..MaxKey]

RECURSIVE SeqsUpTo(_, _)
SeqsUpTo(S, n) ==
  IF n = 0 THEN {<<>>}
  ELSE LET shorter == SeqsUpTo(S, n - 1)
       IN  shorter \cup {Append(q, x) : q \in shorter, x \in S}

RowLists == SeqsUpTo(RowSet, MaxRows)

\* What a failed request rejects with: the HTTP status (0 when there is
\* none) and what its message mentions
NoStatus == 0
NotFound == 404
MethodNotAllowed == 405
Conflict == 409
ServerError == 500
ApiErrors ==
  [status : {NoStatus, NotFound, MethodNotAllowed, Conflict, ServerError},
   text : {"", "404", "405", "duplicate"}]

\* only "not found" is tolerated
IsNotFoundClass_Only404(e) ==
  e.status = NotFound \/ e.text = "404"

\* the "not found" / "method not allowed" class, by code or message content
IsNotFoundClass(e) ==
  e.status \in {NotFound, MethodNotAllowed} \/ e.text \in {"404", "405"}

\* the message is not looked at
IsDuplicateClass_StatusOnly(e) ==
  e.status = Conflict

\* the "conflict/duplicate" class, by code or message content
IsDuplicateClass(e) ==
  e.status = Conflict \/ e.text = "duplicate"

\* no row is dropped
ValidRows_All(rows) ==
  rows

\* step 1: rows with a blank identifier are dropped
ValidRows(rows) ==
  SelectSeq(rows, LAMBDA r : r.key # BlankKey)

\* the loop over the rows is left after its first row
IssueCreate_OnlyFirst(rows, i, log) ==
  IF i > Len(rows) \/ i > 1
    THEN /\ sync' = [sync EXCEPT !.pc = "done", !.i = i]
         /\ requests' = log
    ELSE /\ sync' = [sync EXCEPT !.pc = "create", !.i = i]
         /\ requests' = Append(log, [method |-> "POST", row |-> rows[i]])

\* step 3, at row i: issue its create, or complete when no row is left
IssueCreate(rows, i, log) ==
  IF i > Len(rows)
    THEN /\ sync' = [sync EXCEPT !.pc = "done", !.i = i]
         /\ requests' = log
    ELSE /\ sync' = [sync EXCEPT !.pc = "create", !.i = i]
         /\ requests' = Append(log, [method |-> "POST", row |-> rows[i]])

\* the delete-all request is not awaited: the first create goes out with it
syncCollection_NoAwait(rows) ==
  /\ sync.pc \in {"idle", "done", "failed"}
  /\ sync' = [pc |-> "delete", input |-> rows, rows |-> ValidRows(rows),
              i |-> 0, error |-> Null]
  /\ requests' =
       <<[method |-> "DELETE", row |-> [key |-> BlankKey]]>>
         \o (IF Len(ValidRows(rows)) > 0
               THEN <<[method |-> "POST", row |-> ValidRows(rows)[1]]>>
               ELSE <<>>)
  /\ responses' = <<>>
  /\ UNCHANGED <<orchVars, validation, client, remote>>

\* a synchronizer is invoked: filter, then issue the delete-all request
syncCollection(rows) ==
  /\ sync.pc \in {"idle", "done", "failed"}
  /\ sync' = [pc |-> "delete", input |-> rows, rows |-> ValidRows(rows),
              i |-> 0, error |-> Null]
  /\ requests' = <<[method |-> "DELETE", row |-> [key |-> BlankKey]]>>
  /\ responses' = <<>>
  /\ UNCHANGED <<orchVars, validation, client, remote>>

\* step 2: the delete-all request succeeded
DeleteResolved ==
  /\ sync.pc = "delete"
  /\ remote' = {}
  /\ responses' = Append(responses, "fulfilled")
  /\ IssueCreate(sync.rows, 1, requests)
  /\ UNCHANGED <<orchVars, validation, client>>

\* step 2: the delete-all request failed
DeleteRejected(e) ==
  /\ sync.pc = "delete"
  /\ IF IsNotFoundClass(e)
       THEN IssueCreate(sync.rows, 1, requests)
       ELSE /\ sync' = [sync EXCEPT !.pc = "failed", !.error = e]
            /\ requests' = requests
  /\ responses' = Append(responses, "rejected")
  /\ UNCHANGED <<orchVars, validation, client, remote>>

\* step 3: the create of row i succeeded
CreateResolved ==
  /\ sync.pc = "create"
  /\ remote' = remote \cup {sync.rows[sync.i]}
  /\ responses' = Append(responses, "fulfilled")
  /\ IssueCreate(sync.rows, sync.i + 1, requests)
  /\ UNCHANGED <<orchVars, validation, client>>

\* step 3: the create of row i failed
CreateRejected(e) ==
  /\ sync.pc = "create"
  /\ IF IsDuplicateClass(e)
       THEN IssueCreate(sync.rows, sync.i + 1, requests)
       ELSE /\ sync' = [sync EXCEPT !.pc = "failed", !.error = e]
            /\ requests' = requests
  /\ responses' = Append(responses, "rejected")
  /\ UNCHANGED <<orchVars, validation, client, remote>>

\* A document's remote collection holds any rows before a synchronizer runs
SyncInit ==
  /\ isOnlineMode = TRUE
  /\ state = InitialState(isOnlineMode)
  /\ previousDataRef = Null
  /\ syncInProgressRef = FALSE
  /\ op = NoOp
  /\ tasks = NoTasks
  /\ ret = NoRet
  /\ clock = 1
  /\ writes = {}
  /\ sync = NoSync
  /\ remote \in SUBSET {r \in RowSet : r.key # BlankKey}
  /\ requests = <<>>
  /\ responses = <<>>
  /\ validation = NoValidation
  /\ history = NoHistory
  /\ client = NoClient

SyncNext ==
  \/ \E rows \in RowLists : syncCollection(rows)
  \/ DeleteResolved
  \/ \E e \in ApiErrors : DeleteRejected(e)
  \/ CreateResolved
  \/ \E e \in ApiErrors : CreateRejected(e)

SyncSpec == SyncInit /\ [][SyncNext]_vars

(***************************************************************************)
(* Field validator: validateSSP                                            *)
(***************************************************************************)
\* data[field] of a field the record does not have
Absent == "<undefined>"
\* 'x'.repeat(50001)
LongText == "x.repeat(50001)"

\* The texts a field is given
Texts ==
  {"", "   ", "Low", "Moderate", "High", "moderate", "Critical",
   "alice@agency.gov", "4 hours", "Yes", "2", "ForgeTest System", LongText}

\* value.length
Length(v) ==
  CASE v = "" -> 0
    [] v \in {"   ", "Low"} -> 3
    [] v = "High" -> 4
    [] v \in {"Moderate", "moderate", "Critical"} -> 8
    [] v = "alice@agency.gov" -> 16
    [] v = "4 hours" -> 7
    [] v = "Yes" -> 3
    [] v = "2" -> 1
    [] v = "ForgeTest System" -> 16
    [] v = LongText -> 50001

\* value.trim()
Trim(v) ==
  IF v = "   " THEN "" ELSE v

\* value.toLowerCase()
ToLowerCase(v) ==
  CASE v = "Low" -> "low"
    [] v = "Moderate" -> "moderate"
    [] v = "High" -> "high"
    [] v = "Critical" -> "critical"
    [] v = "Yes" -> "yes"
    [] v = "ForgeTest System" -> "forgetest system"
    [] OTHER -> v

\* typeof value === 'string'
IsString(v) == v # Absent

\* /^[^\s@]+@[^\s@]+\.[^\s@]+$/.test(value)
EMAIL_REGEX(v) ==
  v = "alice@agency.gov"

\* /\d/.test(value)
HasDigit(v) ==
  v \in {"4 hours", "2"}

REQUIRED_FIELDS ==
  <<[section |-> "system_info",
     fields |-> <<"sysName", "sysAcronym", "owningAgency", "sysDesc",
                  "authType">>],
    [section |-> "fips_199", fields |-> <<"conf", "integ", "avail">>],
    [section |-> "control_baseline", fields |-> <<"ctrlBaseline">>],
    [section |-> "rmf_lifecycle", fields |-> <<"rmfCurrentStep">>],
    [section |-> "authorization_boundary", fields |-> <<"bndNarr">>],
    [section |-> "data_flow", fields |-> <<"dfNarr">>],
    [section |-> "network_architecture", fields |-> <<"netNarr">>],
    [section |-> "personnel", fields |-> <<"soName", "aoName", "issoName">>],
    [section |-> "digital_identity", fields |-> <<"ial", "aal">>],
    [section |-> "contingency_plan", fields |-> <<"rto", "rpo">>],
    [section |-> "incident_response", fields |-> <<"irPurpose">>],
    [section |-> "continuous_monitoring", fields |-> <<"iscmType">>]>>

VALID_IMPACT_LEVELS == <<"Low", "Moderate", "High">>
EMAIL_FIELDS ==
  <<"soEmail", "aoEmail", "issoEmail", "issmEmail", "scaEmail", "poEmail">>
IMPACT_LEVEL_FIELDS == <<"conf", "integ", "avail">>
MAX_NARRATIVE_LENGTH == 50000
NARRATIVE_FIELDS ==
  <<"sysDesc", "catJust", "baseJust", "bndNarr", "dfNarr", "netNarr",
    "cryptoNarr", "idNarr", "scrmPlan", "cpPurpose", "cpScope",
    "irPurpose", "irScope", "cmPurpose", "cmChangeNarr", "iscmNarrative">>

Range(q) == {q[i] : i \in 1..Len(q)}

\* The fields of a record the validator reads
Fields ==
  UNION {Range(REQUIRED_FIELDS[k].fields) : k \in 1..Len(REQUIRED_FIELDS)}
    \cup Range(EMAIL_FIELDS) \cup Range(NARRATIVE_FIELDS)
    \cup {"ptaCollectsPii", "ptaPiaRequired"}

\* field.startsWith(prefix), for the prefixes sectionForField asks about
StartsWith(field, prefix) ==
  CASE prefix = "so" -> field \in {"soName", "soEmail"}
    [] prefix = "ao" -> field \in {"aoName", "aoEmail"}
    [] prefix = "isso" -> field \in {"issoName", "issoEmail"}
    [] prefix = "issm" -> field = "issmEmail"
    [] prefix = "sca" -> field = "scaEmail"
    [] prefix = "po" -> field = "poEmail"
    [] prefix = "pta" -> field \in {"ptaCollectsPii", "ptaPiaRequired"}
    [] prefix = "cp" -> field \in {"cpPurpose", "cpScope"}
    [] prefix = "ir" -> field \in {"irPurpose", "irScope"}
    [] prefix = "cm" -> field \in {"cmPurpose", "cmChangeNarr"}
    [] prefix = "iscm" -> field \in {"iscmType", "iscmNarrative"}
    [] OTHER -> FALSE

sectionForField(field) ==
  IF \E k \in 1..Len(REQUIRED_FIELDS) :
       field \in Range(REQUIRED_FIELDS[k].fields)
    THEN REQUIRED_FIELDS[
           CHOOSE k \in 1..Len(REQUIRED_FIELDS) :
             /\ field \in Range(REQUIRED_FIELDS[k].fields)
             /\ \A j \in 1..(k - 1) :
                  field \notin Range(REQUIRED_FIELDS[j].fields)].section
  ELSE IF \E x \in {"so", "ao", "isso", "issm", "sca", "po"} :
            StartsWith(field, x)
    THEN "personnel"
  ELSE IF \E x \in {"pta", "pia", "sorn"} : StartsWith(field, x)
    THEN "privacy"
  ELSE IF StartsWith(field, "cp") \/ field = "rto" \/ field = "rpo"
    THEN "contingency_plan"
  ELSE IF StartsWith(field, "ir") THEN "incident_response"
  ELSE IF StartsWith(field, "cm") THEN "configuration_management"
  ELSE IF StartsWith(field, "iscm") THEN "continuous_monitoring"
  ELSE "system_info"

\* const errors = []; const sectionErrors = {}
NoErrors == [errors |-> <<>>, sectionErrors |-> <<>>]

Put(counts, section, n) ==
  [x \in DOMAIN counts \cup {section} |->
     IF x = section THEN n ELSE counts[x]]

\* an error is pushed and its section's count is overwritten by 1
Push_Overwrite(acc, error) ==
  [errors |-> Append(acc.errors, error),
   sectionErrors |-> Put(acc.sectionErrors, error.section, 1)]

\* errors.push(e); sectionErrors[s] = (sectionErrors[s] || 0) + 1
Push(acc, error) ==
  [errors |-> Append(acc.errors, error),
   sectionErrors |->
     Put(acc.sectionErrors, error.section,
         (IF error.section \in DOMAIN acc.sectionErrors
            THEN acc.sectionErrors[error.section] ELSE 0) + 1)]

RECURSIVE PushAll(_, _)
PushAll(acc, errors) ==
  IF Len(errors) = 0 THEN acc
  ELSE PushAll(Push(acc, Head(errors)), Tail(errors))

ErrorsOf(fields, kind, section) ==
  [i \in 1..Len(fields) |->
     [field |-> fields[i], message |-> kind, section |-> section]]

ErrorsByField(fields, kind) ==
  [i \in 1..Len(fields) |->
     [field |-> fields[i], message |-> kind,
      section |-> sectionForField(fields[i])]]

\* Pass 1, from section k on: a section's count is set when it has errors
RECURSIVE RequiredPass(_, _, _)
RequiredPass(data, k, acc) ==
  IF k > Len(REQUIRED_FIELDS) THEN acc
  ELSE
    LET section == REQUIRED_FIELDS[k].section
        missing == SelectSeq(REQUIRED_FIELDS[k].fields,
                             LAMBDA f : data[f] = Absent \/ data[f] = "")
        next ==
          [errors |-> acc.errors \o ErrorsOf(missing, "is required", section),
           sectionErrors |->
             IF Len(missing) > 0
               THEN Put(acc.sectionErrors, section, Len(missing))
               ELSE acc.sectionErrors]
    IN  RequiredPass(data, k + 1, next)

Populated(v) == IsString(v) /\ Length(Trim(v)) > 0

\* Pass 2: email format, impact level, narrative length
FormatPass(data, acc) ==
  LET emails == SelectSeq(EMAIL_FIELDS,
                  LAMBDA f : Populated(data[f]) /\ ~EMAIL_REGEX(data[f]))
      impacts == SelectSeq(IMPACT_LEVEL_FIELDS,
                   LAMBDA f :
                     /\ Populated(data[f])
                     /\ \A i \in 1..Len(VALID_IMPACT_LEVELS) :
                          ToLowerCase(VALID_IMPACT_LEVELS[i])
                            # ToLowerCase(data[f]))
      long == SelectSeq(NARRATIVE_FIELDS,
                LAMBDA f : IsString(data[f])
                             /\ Length(data[f]) > MAX_NARRATIVE_LENGTH)
  IN  PushAll(
        PushAll(
          PushAll(acc, ErrorsByField(emails, "must be a valid email address")),
          ErrorsOf(impacts, "must be one of", "fips_199")),
        ErrorsByField(long, "exceeds maximum length"))

\* Pass 3: PIA status when PII is collected, RTO and RPO numeric
CrossFieldPass(data, acc) ==
  LET pia == IF data["ptaCollectsPii"] = "Yes"
                  /\ data["ptaPiaRequired"] \in {Absent, ""}
               THEN <<"ptaPiaRequired">> ELSE <<>>
      numeric == SelectSeq(<<"rto", "rpo">>,
                   LAMBDA f : Populated(data[f]) /\ ~HasDigit(data[f]))
  IN  PushAll(PushAll(acc, ErrorsOf(pia, "must be specified", "privacy")),
              ErrorsOf(numeric, "should include a numeric value",
                       "contingency_plan"))

\* the required-field pass is left out
validateSSP_NoRequiredPass(data) ==
  LET acc == CrossFieldPass(data, FormatPass(data, NoErrors))
  IN  [isValid |-> Len(acc.errors) = 0,
       errors |-> acc.errors,
       errorCount |-> Len(acc.errors),
       sectionErrors |-> acc.sectionErrors]

validateSSP(data) ==
  LET acc == CrossFieldPass(data,
               FormatPass(data, RequiredPass(data, 1, NoErrors)))
  IN  [isValid |-> Len(acc.errors) = 0,
       errors |-> acc.errors,
       errorCount |-> Len(acc.errors),
       sectionErrors |-> acc.sectionErrors]

\* v === 'Low' || v === 'Moderate' || v === 'High'
isImpactLevel(v) ==
  v = "Low" \/ v = "Moderate" \/ v = "High"

isControlBaseline(v) ==
  v = "Low" \/ v = "Moderate" \/ v = "High"

\* The type guard of the export and deployment gate
isValidatedSSPData(data) ==
  /\ IsString(data["sysName"]) /\ Length(Trim(data["sysName"])) > 0
  /\ IsString(data["sysDesc"]) /\ Length(Trim(data["sysDesc"])) > 0
  /\ isImpactLevel(data["conf"])
  /\ isImpactLevel(data["integ"])
  /\ isImpactLevel(data["avail"])
  /\ isControlBaseline(data["ctrlBaseline"])
  /\ IsString(data["authType"]) /\ Length(Trim(data["authType"])) > 0
  /\ IsString(data["owningAgency"])
  /\ Length(Trim(data["owningAgency"])) > 0

\* The records validated: the empty record and the minimal complete one,
\* with up to MaxEdits fields given another value
EmptyData == [f \in Fields |-> Absent]

MinimalData ==
  [f \in Fields |->
     CASE f \in {"conf", "integ", "avail", "ctrlBaseline"} -> "Moderate"
       [] f \in {"ial", "aal"} -> "2"
       [] f \in {"rto", "rpo"} -> "4 hours"
       [] f \in Fields \ UNION {Range(REQUIRED_FIELDS[k].fields) :
                                  k \in 1..Len(REQUIRED_FIELDS)} -> Absent
       [] OTHER -> "ForgeTest System"]

EditTexts == (Texts \ {"2", "ForgeTest System"}) \cup {Absent}

RECURSIVE Edited(_)
Edited(n) ==
  IF n = 0 THEN {EmptyData, MinimalData}
  ELSE LET fewer == Edited(n - 1)
       IN  fewer \cup {[d EXCEPT ![f] = v] :
                         d \in fewer, f \in Fields, v \in EditTexts}

\* the record at hand is validated
Validate ==
  /\ validation.data # Null /\ validation.result = Null
  /\ validation' = [validation EXCEPT !.result = validateSSP(validation.data)]
  /\ UNCHANGED <<orchVars, syncVars, client>>

ValidateInit ==
  /\ isOnlineMode = TRUE
  /\ state = InitialState(isOnlineMode)
  /\ previousDataRef = Null
  /\ syncInProgressRef = FALSE
  /\ op = NoOp
  /\ tasks = NoTasks
  /\ ret = NoRet
  /\ clock = 1
  /\ writes = {}
  /\ sync = NoSync
  /\ remote = {}
  /\ requests = <<>>
  /\ responses = <<>>
  /\ validation \in [data : Edited(MaxEdits), result : {Null}]
  /\ history = NoHistory
  /\ client = NoClient

ValidateNext == Validate

ValidateSpec == ValidateInit /\ [][ValidateNext]_vars

(***************************************************************************)
(* API client: token storage and the refresh of the access token           *)
(***************************************************************************)
MaxRefreshes == 3

\* The token pair a login response carries, and the pair the response to the
\* k-th refresh request carries
LoginTokens == [access |-> [access |-> 0], refresh |-> [refresh |-> 0]]
RefreshedTokens(k) == [access |-> [access |-> k], refresh |-> [refresh |-> k]]

\* localStorage first, then sessionStorage
getToken(store) ==
  IF store.token # NoToken THEN store.token
  ELSE IF store.sessionToken # NoToken THEN store.sessionToken
  ELSE NoToken

setTokens(store, accessToken, refreshToken) ==
  [store EXCEPT !.token = accessToken, !.refreshToken = refreshToken,
                !.sessionToken = NoToken]

setToken(store, token) ==
  [store EXCEPT !.sessionToken = token]

clearTokens(store) ==
  [store EXCEPT !.token = NoToken, !.refreshToken = NoToken,
                !.sessionToken = NoToken]

setApiUrl(store, url) ==
  [store EXCEPT !.apiUrl = url]

\* the promise of the k-th refresh
Promise(k) == [promise |-> k]

\* The refresh requests that have not settled
PendingRefreshes ==
  {k \in 1..Len(refreshes) : refreshes[k].pc # "settled"}

\* every call starts a refresh of its own
refreshAccessToken_NoGuard ==
  /\ IF storage.refreshToken = NoToken
       THEN client' =
              [client EXCEPT
                 !.authRet = [fn |-> "refreshAccessToken",
                              value |-> Bool(FALSE), exit |-> "noToken"]]
       ELSE /\ Len(refreshes) < MaxRefreshes
            /\ client' =
              [client EXCEPT
                 !.refreshes = Append(refreshes,
                                      [rToken |-> storage.refreshToken,
                                       pc |-> "fetch", value |-> Null]),
                 !.refreshPromise = Len(refreshes) + 1,
                 !.authRet = [fn |-> "refreshAccessToken",
                              value |-> Promise(Len(refreshes) + 1),
                              exit |-> "new"]]
  /\ UNCHANGED <<orchVars, syncVars, validation>>

\* a call of refreshAccessToken, up to the return of its promise: the body
\* of the inner async function runs up to its first await, the fetch
refreshAccessToken ==
  /\ IF storage.refreshToken = NoToken
       THEN client' =
              [client EXCEPT
                 !.authRet = [fn |-> "refreshAccessToken",
                              value |-> Bool(FALSE), exit |-> "noToken"]]
     ELSE IF refreshPromise # 0
       THEN client' =
              [client EXCEPT
                 !.authRet = [fn |-> "refreshAccessToken",
                              value |-> Promise(refreshPromise),
                              exit |-> "pending"]]
       ELSE /\ Len(refreshes) < MaxRefreshes
            /\ client' =
              [client EXCEPT
                 !.refreshes = Append(refreshes,
                                      [rToken |-> storage.refreshToken,
                                       pc |-> "fetch", value |-> Null]),
                 !.refreshPromise = Len(refreshes) + 1,
                 !.authRet = [fn |-> "refreshAccessToken",
                              value |-> Promise(Len(refreshes) + 1),
                              exit |-> "new"]]
  /\ UNCHANGED <<orchVars, syncVars, validation>>

\* the promise of refresh k settles with a value; finally clears the guard
RefreshSettles(c, k, value) ==
  [c EXCEPT !.refreshes[k].pc = "settled", !.refreshes[k].value = value,
            !.refreshPromise = 0]

\* the fetch of refresh k resolved: with res.ok false the refresh returns
\* false, else the body of the response is awaited
RefreshFetchResolved(k, ok) ==
  /\ k \in 1..Len(refreshes) /\ refreshes[k].pc = "fetch"
  /\ client' =
       [(IF ok THEN [client EXCEPT !.refreshes[k].pc = "json"]
               ELSE RefreshSettles(client, k, Bool(FALSE)))
          EXCEPT !.authRet = NoAuthRet]
  /\ UNCHANGED <<orchVars, syncVars, validation>>

\* res.json() of refresh k resolved: the new pair is stored
RefreshJsonResolved(k) ==
  /\ k \in 1..Len(refreshes) /\ refreshes[k].pc = "json"
  /\ client' =
       [RefreshSettles(client, k, Bool(TRUE))
          EXCEPT !.storage = setTokens(storage, RefreshedTokens(k).access,
                                       RefreshedTokens(k).refresh),
                 !.authRet = NoAuthRet]
  /\ UNCHANGED <<orchVars, syncVars, validation>>

\* the fetch or res.json() of refresh k rejected: catch
RefreshRejected(k) ==
  /\ k \in 1..Len(refreshes) /\ refreshes[k].pc \in {"fetch", "json"}
  /\ client' = [RefreshSettles(client, k, Bool(FALSE))
                  EXCEPT !.authRet = NoAuthRet]
  /\ UNCHANGED <<orchVars, syncVars, validation>>

\* login, from the arrival of a response that carries a token pair
LoggedIn ==
  /\ storage.apiUrl # NoUrl
  /\ client' =
       [client EXCEPT
          !.storage = setTokens(storage, LoginTokens.access,
                                LoginTokens.refresh),
          !.authState = [isAuthenticated |-> TRUE, isOnlineMode |-> TRUE,
                         isLoading |-> FALSE, sspId |-> NoId,
                         apiUrl |-> storage.apiUrl, error |-> Null],
          !.authRet = NoAuthRet]
  /\ UNCHANGED <<orchVars, syncVars, validation>>

disconnectAction ==
  /\ client' = [client EXCEPT !.storage = clearTokens(storage),
                              !.authState = Unauthenticated,
                              !.authRet = NoAuthRet]
  /\ UNCHANGED <<orchVars, syncVars, validation>>

RefreshNext ==
  \/ refreshAccessToken
  \/ \E k \in 1..MaxRefreshes, ok \in BOOLEAN : RefreshFetchResolved(k, ok)
  \/ \E k \in 1..MaxRefreshes : RefreshJsonResolved(k)
  \/ \E k \in 1..MaxRefreshes : RefreshRejected(k)
  \/ LoggedIn
  \/ disconnectAction

(***************************************************************************)
(* connect: the URL hash flow of useAuth                                   *)
(***************************************************************************)
\* A token is malformed, or a JWT whose payload has exp (seconds from the
\* time of the call; NoExp when it has none) and possibly an sspId
NoExp == 0
Malformed == [malformed |-> TRUE]
ConnectTokens ==
  {Malformed} \cup [exp : {NoExp, 30, 120, 600}, sspId : SspIds \cup {NoId}]

\* import.meta.env.VITE_API_URL || ''
DEFAULT_API_URL == ""
ApiUrls ==
  {"", "https://api.forgecomply360.test",
   "https://staging.forgecomply360.test"}

\* localStorage.getItem(API_URL_KEY) || DEFAULT_API_URL
getApiUrl(store) ==
  IF store.apiUrl \notin {NoUrl, ""} THEN store.apiUrl ELSE DEFAULT_API_URL

decodeToken(token) ==
  IF token = Malformed THEN Null ELSE token

\* the buffer connect passes, and the default one
ConnectBufferSeconds == 60
DefaultBufferSeconds == 300

\* Math.floor(Date.now() / 1000), the origin exp is counted from
Now == 0

isTokenExpired(token, bufferSeconds) ==
  IF decodeToken(token) = Null \/ decodeToken(token).exp = NoExp THEN TRUE
  ELSE decodeToken(token).exp - Now < bufferSeconds

\* What settles the verify request: a response status, or no response
NetworkError == 0
Ok == 200
Unauthorized == 401
Forbidden == 403
VerifyOutcomes == {NetworkError, Ok, Unauthorized, Forbidden, ServerError}

\* catch (e) of connect
ConnectFailed(prev, message) ==
  [prev EXCEPT !.isLoading = FALSE, !.error = Err(<<message>>)]

\* the AuthState connect sets when it proceeds
Connected(token, apiUrl) ==
  [isAuthenticated |-> TRUE, isOnlineMode |-> TRUE, isLoading |-> FALSE,
   sspId |-> decodeToken(token).sspId, apiUrl |-> apiUrl, error |-> Null]

ConnectReturn(success, message, exit) ==
  [fn |-> "connect",
   value |-> [success |-> success,
              error |-> IF success THEN Null ELSE Err(<<message>>)],
   exit |-> exit]

\* catch (verifyError): clearTokens() comes before the look at the status
VerifyFailed(store, status) ==
  clearTokens(store)

\* connect(apiUrl, token) up to its first await that is not settled yet: the
\* checks of the token, the two stores, and api() up to its fetch. api() is
\* followed for a client that holds no refresh token.
connect(apiUrlParam, tokenParam) ==
  /\ connecting.pc = "none"
  /\ IF decodeToken(tokenParam) = Null
       THEN client' =
              [client EXCEPT
                 !.authState = ConnectFailed(authState,
                                             "Invalid token format"),
                 !.authRet = ConnectReturn(FALSE, "Invalid token format",
                                           "catch")]
     ELSE IF isTokenExpired(tokenParam, ConnectBufferSeconds)
       THEN client' =
              [client EXCEPT
                 !.authState = ConnectFailed(authState, "Token is expired"),
                 !.authRet = ConnectReturn(FALSE, "Token is expired",
                                           "catch")]
     ELSE LET stored == setToken(setApiUrl(storage, apiUrlParam), tokenParam)
          IN  IF getApiUrl(stored) = ""
                \* api() throws ApiError('API URL not configured', 0)
                THEN client' =
                       [client EXCEPT
                          !.storage = VerifyFailed(stored, NetworkError),
                          !.authState = Connected(tokenParam, apiUrlParam),
                          !.authRet = ConnectReturn(TRUE, "", "unverified")]
              ELSE IF stored.refreshToken = NoToken
                        /\ isTokenExpired(getToken(stored),
                                          DefaultBufferSeconds)
                \* api() clears the tokens and throws
                \* ApiError('Session expired', 401)
                THEN client' =
                       [client EXCEPT
                          !.storage = VerifyFailed(clearTokens(stored),
                                                   Unauthorized),
                          !.authState =
                            ConnectFailed(authState,
                                          "Token rejected by server"),
                          !.authRet =
                            ConnectReturn(FALSE, "Token rejected by server",
                                          "catch")]
                ELSE client' =
                       [client EXCEPT
                          !.storage = stored,
                          !.authState = [authState EXCEPT
                                           !.isLoading = TRUE,
                                           !.error = Null],
                          !.connecting = [pc |-> "verify",
                                          token |-> tokenParam,
                                          apiUrl |-> apiUrlParam],
                          !.authRet = NoAuthRet]
  /\ UNCHANGED <<orchVars, syncVars, validation>>

\* onAuthFailure listener
AuthFailure(prev) ==
  [prev EXCEPT !.isAuthenticated = FALSE, !.isOnlineMode = FALSE,
               !.error = Err(<<"Session expired. Please sign in again.">>)]

\* the verify request settled: the rest of api(), then the rest of connect
VerifySettled(outcome) ==
  /\ connecting.pc = "verify"
  /\ client' =
       [(IF outcome = Ok
           THEN [client EXCEPT
                   !.authState = Connected(connecting.token,
                                           connecting.apiUrl),
                   !.authRet = ConnectReturn(TRUE, "", "verified")]
         ELSE IF outcome = Unauthorized
           \* api(): no refresh token, so clearTokens() and the auth
           \* failure listener, then ApiError('Session expired', 401)
           THEN [client EXCEPT
                   !.storage = VerifyFailed(clearTokens(storage), outcome),
                   !.authState = ConnectFailed(AuthFailure(authState),
                                               "Token rejected by server"),
                   !.authRet = ConnectReturn(FALSE,
                                             "Token rejected by server",
                                             "catch")]
         ELSE IF outcome = Forbidden
           THEN [client EXCEPT
                   !.storage = VerifyFailed(storage, outcome),
                   !.authState = ConnectFailed(authState,
                                               "Token rejected by server"),
                   !.authRet = ConnectReturn(FALSE,
                                             "Token rejected by server",
                                             "catch")]
           \* a network error or another status: connect proceeds
           ELSE [client EXCEPT
                   !.storage = VerifyFailed(storage, outcome),
                   !.authState = Connected(connecting.token,
                                           connecting.apiUrl),
                   !.authRet = ConnectReturn(TRUE, "", "unverified")])
          EXCEPT !.connecting = NoConnect]
  /\ UNCHANGED <<orchVars, syncVars, validation>>

ConnectNext ==
  \/ \E url \in ApiUrls, token \in ConnectTokens : connect(url, token)
  \/ \E outcome \in VerifyOutcomes : VerifySettled(outcome)
  \/ disconnectAction

\* The orchestrator at rest
OrchestratorIdle ==
  /\ isOnlineMode = TRUE
  /\ state = InitialState(isOnlineMode)
  /\ previousDataRef = Null
  /\ syncInProgressRef = FALSE
  /\ op = NoOp
  /\ tasks = NoTasks
  /\ ret = NoRet
  /\ clock = 1
  /\ writes = {}
  /\ sync = NoSync
  /\ remote = {}
  /\ requests = <<>>
  /\ responses = <<>>
  /\ validation = NoValidation
  /\ history = NoHistory

\* A client that is configured with the URL of the API
RefreshInit ==
  /\ OrchestratorIdle
  /\ client \in {NoClient} \cup
                 {[NoClient EXCEPT !.storage = setApiUrl(NoStorage, url)] :
                    url \in ApiUrls \ {""}}

RefreshSpec == RefreshInit /\ [][RefreshNext]_vars

ConnectInit ==
  /\ OrchestratorIdle
  /\ client = NoClient

ConnectSpec == ConnectInit /\ [][ConnectNext]_vars

(***************************************************************************)
(* Properties of the orchestrator                                          *)
(***************************************************************************)
InFlight == op.fn # "none"
Settled == {"fulfilled", "rejected"}
Finishes(fn) == op.fn = fn /\ op'.fn = "none"

\* C1: a loadFromServer, saveToServer or fullSync call made while the mutex
\* is held returns its sentinel (null for load, false for save and fullSync)
\* in the same step, and leaves the SyncState, the baseline, the mutex, the
\* operation in flight and its collection syncs exactly as they were.
SkipFrame ==
  UNCHANGED <<state, previousDataRef, syncInProgressRef, op, tasks>>

C1_ContendedCallSkips ==
  [][/\ (syncInProgressRef /\ \E id \in SspIds : loadFromServer(id))
          => (SkipFrame /\ ret'.fn = "loadFromServer" /\ ret'.value = Null)
     /\ (syncInProgressRef /\ \E id \in SspIds, d \in DataSet :
                                 saveToServer(id, d))
          => (SkipFrame /\ ret'.fn = "saveToServer"
                /\ ret'.value = Bool(FALSE))
     /\ (syncInProgressRef /\ \E id \in SspIds, d \in DataSet :
                                 fullSync(id, d))
          => (SkipFrame /\ ret'.fn = "fullSync"
                /\ ret'.value = Bool(FALSE))]_vars

\* a load was skipped while a fullSync is awaiting its collection syncs
C1_Witness ==
  /\ ret.fn = "loadFromServer" /\ ret.exit = "skip"
  /\ op.fn = "fullSync" /\ op.pc = "fanout"
  /\ \E l \in LabelSet : tasks[l] = "pending"

\* C2: while a collection sync that fullSync issued is still pending,
\* fullSync does not return and a settlement leaves the SyncState alone; a
\* settlement of one collection sync never removes another, whatever its
\* outcome; when fullSync returns every collection of the record that it
\* issued has settled.
C2_FullSyncAwaitsAll ==
  [][(op.fn = "fullSync" /\ op.pc = "fanout") =>
       /\ (op' # op) =>
            \A l \in op.data.lists : tasks[l] \in Settled
       /\ (op' = op /\ tasks' # tasks) =>
            /\ state' = state
            /\ syncInProgressRef'
            /\ \A l \in LabelSet :
                 /\ tasks[l] = "pending" => tasks'[l] \in Settled \cup {"pending"}
                 /\ tasks[l] \in Settled => tasks'[l] = tasks[l]]_vars

\* one collection sync has rejected while another is still pending
C2_Witness ==
  /\ op.fn = "fullSync" /\ op.pc = "fanout"
  /\ \E l1, l2 \in LabelSet : tasks[l1] = "rejected" /\ tasks[l2] = "pending"

\* The collection kinds an error message names
Named(error) ==
  IF error = Null THEN {}
  ELSE {error.message[i] : i \in 1..Len(error.message)} \cap LabelSet

\* C3: when the primary save succeeded and at least one collection sync
\* rejected, fullSync returns false, status is error, the message names
\* exactly the rejected collection kinds, lastSyncedAt is set and
\* pendingChanges is true.
C3_PartialFailure ==
  [][(Finishes("fullSync") /\ op.pc = "fanout"
        /\ \E l \in LabelSet : tasks[l] = "rejected") =>
       /\ ret'.fn = "fullSync" /\ ret'.value = Bool(FALSE)
       /\ state'.status = "error"
       /\ Named(state'.error) = {l \in LabelSet : tasks[l] = "rejected"}
       /\ state'.lastSyncedAt # NoDate
       /\ state'.pendingChanges]_vars

\* fullSync has returned with one collection failed and another synced
C3_Witness ==
  /\ ret.fn = "fullSync" /\ ret.exit = "partial"
  /\ state.status = "error"
  /\ Cardinality(Named(state.error)) = 1
  /\ state.lastSyncedAt # NoDate

\* C4: when the primary save rejects, fullSync returns false, status is
\* error with the rejection's message, no collection sync has been issued,
\* and neither admitting the call nor handling the rejection writes
\* lastSyncedAt.
C4_PrimaryFailure ==
  [][/\ (Finishes("fullSync") /\ op.pc = "primary") =>
          /\ ret'.fn = "fullSync" /\ ret'.value = Bool(FALSE)
          /\ state'.status = "error"
          /\ \E e \in Rejections : state'.error = Err(<<e.message>>)
          /\ state'.lastSyncedAt = state.lastSyncedAt
          /\ tasks = NoTasks /\ tasks' = NoTasks
     /\ (op.fn = "none" /\ op'.fn = "fullSync") =>
          state'.lastSyncedAt = state.lastSyncedAt]_vars

\* the primary save of a fullSync was rejected after an earlier sync
C4_Witness ==
  /\ ret.fn = "fullSync" /\ ret.exit = "catch"
  /\ state.status = "error"
  /\ state.lastSyncedAt # NoDate /\ state.lastSyncedAt < clock

\* C5: a collection sync is issued only by a fullSync whose primary save
\* has resolved.
C5_CollectionsAfterPrimary ==
  (\E l \in LabelSet : tasks[l] # "none") =>
     (op.fn = "fullSync" /\ op.pc = "fanout")

\* the primary save has resolved and the collection syncs are issued
C5_Witness ==
  /\ op.fn = "fullSync" /\ op.pc = "fanout"
  /\ \A l \in op.data.lists : tasks[l] = "pending"
  /\ op.data.lists # {}

\* C6: the mutex is held exactly while an admitted operation has not
\* finished, so every exit of loadFromServer, saveToServer and fullSync
\* releases it; a call made when no operation is in flight is admitted; and
\* when every network request settles, a held mutex is eventually released.
C6_MutexReleased ==
  /\ [](syncInProgressRef <=> InFlight)
  /\ [][/\ (~InFlight /\ \E id \in SspIds : loadFromServer(id))
             => op'.fn = "loadFromServer"
        /\ (~InFlight /\ \E id \in SspIds, d \in DataSet : saveToServer(id, d))
             => op'.fn = "saveToServer"
        /\ (~InFlight /\ \E id \in SspIds, d \in DataSet : fullSync(id, d))
             => op'.fn = "fullSync"]_vars
  /\ (syncInProgressRef ~> ~syncInProgressRef)

\* a load has left through its catch block and the mutex is free again
C6_Witness ==
  /\ ret.fn = "loadFromServer" /\ ret.exit = "catch"
  /\ state.status = "error"
  /\ ~syncInProgressRef

C8_AllSevenInvoked ==
  (op.fn = "fullSync" /\ op.pc = "fanout") =>
     \A l \in LabelSet : tasks[l] # "none"

\* C8, amended: a fullSync whose primary save succeeded has invoked the
\* synchronizer of exactly those collections of the record that hold at
\* least one row.
C8_NonEmptyInvoked ==
  (op.fn = "fullSync" /\ op.pc = "fanout") =>
     \A l \in LabelSet : (tasks[l] # "none") <=> (l \in op.data.lists)

\* the primary save of a record with one non-empty collection has resolved
C8_Witness ==
  /\ op.fn = "fullSync" /\ op.pc = "fanout"
  /\ tasks["infoTypes"] = "pending"
  /\ tasks["portsProtocols"] = "none"

\* What a failure must leave alone
KeepsDocument ==
  /\ state'.sspId = state.sspId
  /\ state'.sspTitle = state.sspTitle
  /\ state'.lastSyncedAt = state.lastSyncedAt
  /\ state'.pendingChanges = state.pendingChanges

\* C14: when a request of an admitted loadFromServer or saveToServer rejects,
\* the call returns (null for load, false for save) instead of throwing,
\* status is error, the error is the rejection's message, and sspId,
\* sspTitle, lastSyncedAt and pendingChanges are as they were; admitting the
\* call does not change them either.
C14_FailureIsReturned ==
  [][/\ \A e \in Rejections : LoadRejected(e) =>
          /\ ret' = [fn |-> "loadFromServer", value |-> Null,
                     exit |-> "catch"]
          /\ state'.status = "error" /\ state'.error = Err(<<e.message>>)
          /\ KeepsDocument
     /\ \A e \in Rejections : SaveRejected(e) =>
          /\ ret' = [fn |-> "saveToServer", value |-> Bool(FALSE),
                     exit |-> "catch"]
          /\ state'.status = "error" /\ state'.error = Err(<<e.message>>)
          /\ KeepsDocument
     /\ (~InFlight /\ op'.fn \in {"loadFromServer", "saveToServer"})
          => KeepsDocument]_vars

\* a save of a loaded document with unsaved edits has failed
C14_Witness ==
  /\ ret.fn = "saveToServer" /\ ret.exit = "catch"
  /\ state.status = "error" /\ state.error # Null
  /\ state.sspId # NoId /\ state.lastSyncedAt # NoDate
  /\ state.pendingChanges

\* C15: an admitted saveToServer writes exactly the sections whose value
\* differs between the baseline at the time of the call and the record: no
\* section when the record equals the baseline, and every populated section
\* (and no other) when there is no baseline.
C15_WritesChangedSections ==
  [][\A id \in SspIds, d \in SaveData :
       (~syncInProgressRef /\ saveToServer(id, d)) =>
          /\ previousDataRef = Null =>
               writes' = {k \in SectionKeys : d.sections[k] # Blank}
          /\ previousDataRef # Null =>
               writes' = {k \in SectionKeys :
                            d.sections[k] # previousDataRef.sections[k]}
          /\ previousDataRef = d => writes' = {}]_vars

\* a save over a baseline writes one section and leaves a populated,
\* unchanged one alone
C15_Witness ==
  /\ op.fn = "saveToServer" /\ op.pc = "save"
  /\ previousDataRef # Null
  /\ Cardinality(writes) = 1
  /\ \E k \in SectionKeys \ writes :
       op.data.sections[k] # Blank
         /\ op.data.sections[k] = previousDataRef.sections[k]

\* What a synchronous transition of the SyncState must leave alone
KeepsRefs ==
  UNCHANGED <<previousDataRef, syncInProgressRef, op, tasks, writes>>

\* C16: markDirty sets pendingChanges to true; it changes status from synced
\* to dirty and leaves every other status (offline, idle, syncing, dirty,
\* error) as it was; no other field, the baseline or an operation in flight
\* is touched.
C16_MarkDirty ==
  [][markDirty =>
       /\ state'.pendingChanges
       /\ state'.status = IF state.status = "synced" THEN "dirty"
                                                     ELSE state.status
       /\ state'.sspId = state.sspId /\ state'.sspTitle = state.sspTitle
       /\ state'.lastSyncedAt = state.lastSyncedAt
       /\ state'.error = state.error
       /\ KeepsRefs]_vars

\* a synced document was edited: it is dirty, with its sync time kept
C16_Witness ==
  /\ state.status = "dirty" /\ state.pendingChanges
  /\ state.error = Null
  /\ state.sspId # NoId /\ state.lastSyncedAt = clock
  /\ previousDataRef # Null /\ previousDataRef.lists = {}

\* C17: clearError sets error to null and status to dirty when
\* pendingChanges is true and to idle otherwise, whatever the status was;
\* the other fields are left alone.
C17_ClearError ==
  [][clearError =>
       /\ state'.error = Null
       /\ state.pendingChanges => state'.status = "dirty"
       /\ ~state.pendingChanges => state'.status = "idle"
       /\ KeepsDocument
       /\ KeepsRefs]_vars

\* an error was cleared with nothing pending while connectivity is off:
\* status is idle
C17_Witness ==
  /\ ~isOnlineMode /\ state.status = "idle"
  /\ state.error = Null /\ ~state.pendingChanges
  /\ ~InFlight

\* C18: clearSync resets the SyncState to status offline with sspId,
\* sspTitle, lastSyncedAt and error null and pendingChanges false, and drops
\* the baseline: against the baseline it leaves, a save treats every
\* populated section as changed, and while no operation is in flight the
\* baseline stays dropped.
C18_ClearSync ==
  [][/\ clearSync =>
          /\ state' = [status |-> "offline", lastSyncedAt |-> NoDate,
                       sspId |-> NoId, sspTitle |-> NoTitle, error |-> Null,
                       pendingChanges |-> FALSE]
          /\ previousDataRef' = Null
          /\ \A d \in SaveData :
               saveSSPToBackend(d, previousDataRef')
                 = {k \in SectionKeys : d.sections[k] # Blank}
     /\ (previousDataRef = Null /\ ~InFlight) => previousDataRef' = Null
     /\ \A id \in SspIds, d \in SaveData :
          (previousDataRef = Null /\ ~InFlight /\ saveToServer(id, d)) =>
             writes' = {k \in SectionKeys : d.sections[k] # Blank}]_vars

\* a document that had been saved was cleared while the hook is online
C18_Witness ==
  /\ isOnlineMode /\ state.status = "offline"
  /\ state.sspId = NoId /\ state.lastSyncedAt = NoDate
  /\ previousDataRef = Null
  /\ writes # {} /\ ~InFlight

\* C19, as claimed: going offline sets status to offline and coming online
\* sets status to idle, and nothing else is touched.
C19_OnlineSetsIdle ==
  [][/\ SetOnlineMode(FALSE) =>
          (state'.status = "offline" /\ KeepsDocument
             /\ state'.error = state.error /\ KeepsRefs)
     /\ SetOnlineMode(TRUE) =>
          (state'.status = "idle" /\ KeepsDocument
             /\ state'.error = state.error /\ KeepsRefs)]_vars

\* C19, amended: a connectivity change touches only the status field: going
\* offline sets status to offline; coming online sets status to idle when
\* it was offline and leaves it as it was otherwise.
C19_ConnectivityChangesStatusOnly ==
  [][/\ SetOnlineMode(FALSE) =>
          (state'.status = "offline" /\ KeepsDocument
             /\ state'.error = state.error /\ KeepsRefs)
     /\ SetOnlineMode(TRUE) =>
          (/\ state'.status = IF state.status = "offline" THEN "idle"
                                                          ELSE state.status
           /\ KeepsDocument
           /\ state'.error = state.error /\ KeepsRefs)]_vars

\* connectivity was lost on a loaded document with unsaved edits
C19_Witness ==
  /\ ~isOnlineMode /\ state.status = "offline"
  /\ state.sspId # NoId /\ state.lastSyncedAt # NoDate
  /\ state.pendingChanges

\* C22: when markDirty ran while a saveToServer or fullSync was in flight
\* and that operation then completes successfully (returns true),
\* pendingChanges is still true and status is not synced.
C22_DirtySignalKept ==
  [][(history.dirtied
        /\ (SaveResolved \/ (FullSyncSettled /\ ret'.value = Bool(TRUE))))
       => (state'.pendingChanges /\ state'.status # "synced")]_vars

\* C23: whenever the mutex is held, status is syncing, whatever markDirty,
\* clearError, clearSync, setCurrentSSP and connectivity changes ran since
\* the call in flight was admitted.
C23_MutexImpliesSyncing ==
  syncInProgressRef => state.status = "syncing"

\* C24: when a loadFromServer that was admitted returns null because a
\* request of it rejected, the baseline is what it was when the call was
\* admitted.
C24_FailedLoadKeepsBaseline ==
  [][\A e \in Rejections :
       LoadRejected(e) => previousDataRef' = history.baseline]_vars

\* C26: while connectivity is off and status is offline, no markDirty,
\* clearError, setCurrentSSP or settlement of a request of a call in flight
\* moves status out of offline.
C26_OfflineWhileDisconnected ==
  [][(/\ ~isOnlineMode /\ state.status = "offline"
      /\ \/ markDirty
         \/ clearError
         \/ \E id \in SspIds, t \in Titles \cup {NoTitle} :
              setCurrentSSP(id, t)
         \/ NetworkSettles)
       => state'.status = "offline"]_vars

\* C27: in every reachable state, status synced implies that sspId is not
\* null.
C27_SyncedHasId ==
  state.status = "synced" => state.sspId # NoId

\* C28: in every reachable state, status dirty implies that pendingChanges
\* is true.
C28_DirtyHasPending ==
  state.status = "dirty" => state.pendingChanges

(***************************************************************************)
(* Properties of the collection synchronizer                               *)
(***************************************************************************)
IsPost(request) == request.method = "POST"

\* C9: when the delete-all request fails with a 404 or 405 class error the
\* synchronizer goes on to the creates (the first valid row's create is
\* issued, or the invocation completes when there is none); with any other
\* error it fails with that error and no create is issued.
C9_DeleteFailure ==
  [][\A e \in ApiErrors : DeleteRejected(e) =>
       IF e.status \in {404, 405} \/ e.text \in {"404", "405"}
         THEN /\ sync'.error = Null
              /\ IF Len(sync.rows) > 0
                   THEN /\ sync'.pc = "create"
                        /\ requests' = Append(requests,
                             [method |-> "POST", row |-> sync.rows[1]])
                   ELSE sync'.pc = "done"
         ELSE /\ sync'.pc = "failed" /\ sync'.error = e
              /\ \A k \in 1..Len(requests') : ~IsPost(requests'[k])]_vars

\* the delete was refused and the first create is issued over the old rows
C9_Witness ==
  /\ sync.pc = "create" /\ sync.i = 1
  /\ remote # {}
  /\ Len(requests) = 2 /\ IsPost(requests[2])

\* C10: when a create fails with status 409 or a message containing
\* "duplicate" the synchronizer moves on to the next row without an error;
\* with any other failure it fails with that error, issues no further
\* request and leaves the rows already created in the remote collection.
C10_CreateFailure ==
  [][\A e \in ApiErrors : CreateRejected(e) =>
       IF e.status = 409 \/ e.text = "duplicate"
         THEN /\ sync'.error = Null
              /\ sync'.i = sync.i + 1
              /\ IF sync.i < Len(sync.rows)
                   THEN /\ sync'.pc = "create"
                        /\ requests' = Append(requests,
                             [method |-> "POST", row |-> sync.rows[sync.i + 1]])
                   ELSE sync'.pc = "done"
         ELSE /\ sync'.pc = "failed" /\ sync'.error = e
              /\ requests' = requests
              /\ remote' = remote]_vars

\* the second create failed for good after the first row was created
C10_Witness ==
  /\ sync.pc = "failed" /\ sync.i = 2
  /\ Len(requests) = 3
  /\ sync.rows[1] \in remote

\* The positions of the input array whose row has a non-blank identifier
ValidIndices(input) ==
  {i \in 1..Len(input) : input[i].key # BlankKey}

\* The position in the input array of its k-th row with a non-blank identifier
KthValid(input, k) ==
  CHOOSE i \in ValidIndices(input) :
    Cardinality({j \in ValidIndices(input) : j < i}) = k - 1

Posts == {k \in 1..Len(requests) : IsPost(requests[k])}

\* C11: within one invocation the delete-all request is the first request;
\* no create is issued while it is unsettled; the k-th create carries the
\* k-th row of the input array that has a non-blank identifier, so creates
\* go out one per surviving row in the order of the input array; and a
\* create is issued only when every earlier request has settled.
C11_DeleteThenCreatesInOrder ==
  /\ sync.pc # "idle" =>
       /\ Len(requests) >= 1
       /\ requests[1].method = "DELETE"
       /\ Posts = 2..Len(requests)
  /\ sync.pc = "delete" => (Posts = {} /\ responses = <<>>)
  /\ Len(requests) - 1 <= Cardinality(ValidIndices(sync.input))
  /\ \A k \in 2..Len(requests) :
       /\ requests[k].row = sync.input[KthValid(sync.input, k - 1)]
       /\ Len(responses) >= k - 1
  /\ sync.pc = "done" =>
       Len(requests) - 1 = Cardinality(ValidIndices(sync.input))

\* the second of two creates is in flight, the rows being in input order
C11_Witness ==
  /\ sync.pc = "create" /\ sync.i = 2
  /\ Len(requests) = 3
  /\ requests[2].row = sync.input[1] /\ requests[3].row = sync.input[2]
  /\ requests[2].row # requests[3].row

\* C12: a create is issued only for a row of the input whose identifier is
\* not blank, an invocation issues exactly one delete, and an invocation
\* whose input is empty or holds only rows with a blank identifier completes
\* having issued that one delete and no create.
C12_BlankRowsNeverSent ==
  /\ \A k \in Posts :
       /\ requests[k].row.key # BlankKey
       /\ \E i \in 1..Len(sync.input) : sync.input[i] = requests[k].row
  /\ sync.pc # "idle" =>
       Cardinality({k \in 1..Len(requests) : requests[k].method = "DELETE"}) = 1
  /\ (sync.pc \in {"create", "done"} /\ ValidIndices(sync.input) = {}) =>
       /\ sync.pc = "done"
       /\ Len(requests) = 1 /\ Posts = {}

\* an invocation whose two rows are both blank has completed with one delete
C12_Witness ==
  /\ sync.pc = "done"
  /\ Len(sync.input) = 2 /\ ValidIndices(sync.input) = {}
  /\ Len(requests) = 1 /\ requests[1].method = "DELETE"

\* The rows of the local list that have a non-blank identifier
ValidSet(input) ==
  {input[i] : i \in ValidIndices(input)}

\* C13, as claimed: when an invocation has completed without error the
\* remote collection holds exactly the valid rows of the local list.
C13_RemoteIsLocal ==
  sync.pc = "done" => remote = ValidSet(sync.input)

\* C13, amended: when an invocation whose delete-all request succeeded has
\* completed without error, the remote collection holds exactly the valid
\* rows whose create succeeded, so no row outside the local list is left;
\* it holds exactly the valid rows of the local list when no create was
\* swallowed as a duplicate.
C13_StaleRowsDropped ==
  (sync.pc = "done" /\ responses[1] = "fulfilled") =>
     /\ Len(responses) = Len(sync.rows) + 1
     /\ remote = {sync.rows[k] : k \in {j \in 1..Len(sync.rows) :
                                           responses[j + 1] = "fulfilled"}}
     /\ remote \subseteq ValidSet(sync.input)
     /\ (\A j \in 1..Len(responses) : responses[j] = "fulfilled")
          => remote = ValidSet(sync.input)

\* a list with a blank and a valid row replaced the remote collection
C13_Witness ==
  /\ sync.pc = "done"
  /\ Len(sync.input) = 2 /\ Cardinality(ValidIndices(sync.input)) = 1
  /\ responses = <<"fulfilled", "fulfilled">>
  /\ remote = ValidSet(sync.input)

(***************************************************************************)
(* Properties of the field validator                                       *)
(***************************************************************************)
Validated == validation.result # Null

\* The sections the errors of a result are tagged with
Tagged(result) ==
  {result.errors[i].section : i \in 1..Len(result.errors)}

\* C20: for every record validated, isValid is true exactly when errors is
\* empty, errorCount is the number of errors, and sectionErrors has an entry
\* for exactly the sections at least one error is tagged with, each entry
\* being the number of errors tagged with that section.
C20_ResultIsConsistent ==
  Validated =>
    LET result == validation.result
    IN  /\ result.isValid <=> (result.errors = <<>>)
        /\ result.errorCount = Len(result.errors)
        /\ DOMAIN result.sectionErrors = Tagged(result)
        /\ \A section \in Tagged(result) :
             result.sectionErrors[section] =
               Cardinality({i \in 1..Len(result.errors) :
                              result.errors[i].section = section})

\* a record with a required name missing and an ill-formed email: two
\* errors from two passes in the personnel section
C20_Witness ==
  /\ Validated
  /\ validation.data["issoName"] = Absent
  /\ validation.data["soEmail"] = "Yes"
  /\ ~validation.result.isValid
  /\ "personnel" \in DOMAIN validation.result.sectionErrors
  /\ validation.result.sectionErrors["personnel"] >= 2

\* The fields pass 1 requires, and the section each is listed under
RequiredFields ==
  UNION {Range(REQUIRED_FIELDS[k].fields) : k \in 1..Len(REQUIRED_FIELDS)}

\* The required fields of a record that are absent or blank after trimming
MissingAfterTrim(data) ==
  {f \in RequiredFields : data[f] = Absent \/ Trim(data[f]) = ""}

\* The "is required" errors a result holds for a field
RequiredErrors(result, f) ==
  {i \in 1..Len(result.errors) :
     result.errors[i].field = f /\ result.errors[i].message = "is required"}

\* C21: for every record validated and each required field of it that is
\* absent or blank after trimming (whitespace-only included), the result
\* holds exactly one "is required" error for the field, tagged with the
\* field's section; isValid is then false and sectionErrors has a non-zero
\* entry for the section.
C21_BlankRequiredIsError ==
  Validated =>
    \A f \in MissingAfterTrim(validation.data) :
      LET result == validation.result
      IN  /\ Cardinality(RequiredErrors(result, f)) = 1
          /\ \A i \in RequiredErrors(result, f) :
               result.errors[i].section = sectionForField(f)
          /\ ~result.isValid
          /\ sectionForField(f) \in DOMAIN result.sectionErrors
          /\ result.sectionErrors[sectionForField(f)] > 0

(***************************************************************************)
(* Properties of the API client and of connect                             *)
(***************************************************************************)
\* C25, as claimed: at most one refresh request is in flight; every call of
\* refreshAccessToken made while one is pending issues no request and
\* returns the pending refresh's promise; when the refresh settles the guard
\* is cleared, and a call made then starts a new refresh.
C25_SingleRefreshInFlight ==
  /\ [](Cardinality(PendingRefreshes) <= 1)
  /\ [](refreshPromise = 0 <=> PendingRefreshes = {})
  /\ [][refreshAccessToken =>
          IF PendingRefreshes # {}
            THEN /\ refreshes' = refreshes
                 /\ \E k \in PendingRefreshes : authRet'.value = Promise(k)
            ELSE storage.refreshToken # NoToken
                   => /\ Len(refreshes') = Len(refreshes) + 1
                      /\ refreshes'[Len(refreshes')].pc = "fetch"
                      /\ authRet'.value = Promise(Len(refreshes'))]_vars

\* C25, amended: at most one refresh request is in flight and the guard is
\* set exactly while it is; a call of refreshAccessToken made while a refresh
\* is pending issues no request, and returns the pending refresh's promise
\* when a refresh token is stored and false when none is; a call made after
\* the refresh settled, with a refresh token stored, starts a new refresh.
C25_SingleRefreshWithToken ==
  /\ [](Cardinality(PendingRefreshes) <= 1)
  /\ [](refreshPromise = 0 <=> PendingRefreshes = {})
  /\ [][refreshAccessToken =>
          IF PendingRefreshes # {}
            THEN /\ refreshes' = refreshes
                 /\ IF storage.refreshToken # NoToken
                      THEN \E k \in PendingRefreshes :
                             authRet'.value = Promise(k)
                      ELSE authRet'.value = Bool(FALSE)
            ELSE storage.refreshToken # NoToken
                   => /\ Len(refreshes') = Len(refreshes) + 1
                      /\ refreshes'[Len(refreshes')].pc = "fetch"
                      /\ authRet'.value = Promise(Len(refreshes'))]_vars

\* the first refresh has settled, a later call started a second one, and a
\* call made while that one is pending was handed its promise
C25_Witness ==
  /\ Len(refreshes) = 2
  /\ refreshes[1].pc = "settled" /\ refreshes[2].pc # "settled"
  /\ authRet.fn = "refreshAccessToken" /\ authRet.exit = "pending"
  /\ authRet.value = Promise(2)


\* C30: when connect(apiUrl, token) returns success = true, the token it was
\* given is the stored one, getToken() returns it; whether connect returned
\* before a request was issued or after the verify request settled.
C30_ConnectedKeepsToken ==
  /\ [][\A u \in ApiUrls, t \in ConnectTokens :
          (connect(u, t) /\ authRet'.fn = "connect"
                         /\ authRet'.value.success)
            => getToken(storage') = t]_vars
  /\ [][\A o \in VerifyOutcomes :
          (VerifySettled(o) /\ authRet'.value.success)
            => getToken(storage') = connecting.token]_vars


\* C29, as claimed: every record for which validateSSP returns isValid = true
\* satisfies isValidatedSSPData.
C29_ValidPassesGate ==
  (Validated /\ validation.result.isValid)
    => isValidatedSSPData(validation.data)

\* the levels of the record are written exactly as the gate reads them
ExactLevels(data) ==
  \A f \in {"conf", "integ", "avail", "ctrlBaseline"} :
    data[f] \in Range(VALID_IMPACT_LEVELS)

\* a text field of the gate that holds white space only
WhitespaceOnly(data) ==
  {f \in {"sysName", "sysDesc", "authType", "owningAgency"} :
     IsString(data[f]) /\ data[f] # "" /\ Trim(data[f]) = ""}

\* C29, amended: a record for which validateSSP returns isValid = true
\* satisfies isValidatedSSPData exactly when its impact levels and control
\* baseline are written Low, Moderate or High in that letter case and none
\* of system name, description, authorization type and owning agency is
\* white space only.
C29_ValidPassesGateWhenExact ==
  (Validated /\ validation.result.isValid)
    => (isValidatedSSPData(validation.data)
          <=> (ExactLevels(validation.data)
                 /\ WhitespaceOnly(validation.data) = {}))

\* a record that passes both, and was not the minimal one to begin with
C29_Witness ==
  /\ Validated /\ validation.result.isValid
  /\ isValidatedSSPData(validation.data)
  /\ validation.data # MinimalData

====
